---- MODULE Spec2Model ----
(***************************************************************************)
(* sjtu::list<T> (src/list.hpp): a doubly-linked list between two sentinel *)
(* nodes, with iterator and const_iterator handles.                        *)
(*                                                                         *)
(* The program modelled holds two lists, `list<T> A, B;`, one iterator     *)
(* variable `it`, and applies any public operation to them in any order.   *)
(* A const_iterator is a temporary: an operation on one converts `it`      *)
(* (const_iterator(const iterator &)), applies the operator and leaves the *)
(* temporary in res.cit.                                                   *)
(*                                                                         *)
(* The heap is a finite set of node addresses.  A node that has been       *)
(* deleted keeps its address and `new` may return it again (address       *)
(* reuse).  erased is the set of nodes destroyed by list::erase whose      *)
(* address has not been handed out since.                                  *)
(* Reading a field of a deleted node is undefined behaviour: the value     *)
(* read is nullptr, any live node, or a dangling address (any value for    *)
(* val); a write to a deleted node is lost.  Dereferencing nullptr ends    *)
(* the run ("crash").                                                      *)
(*                                                                         *)
(* broken = TRUE after the first operation that had undefined behaviour or *)
(* that insert/erase carried out on a node not linked into the list it was *)
(* called on.  The outcome of that operation is part of the state; the run *)
(* is not followed further.                                                *)
(*                                                                         *)
(* res is the outcome of the call of the statement being executed: the     *)
(* operation, the exception signalled, the value returned and the          *)
(* const_iterator temporary.  The statement ends (Discard) before the next *)
(* one starts.                                                             *)
(*                                                                         *)
(* size_t arithmetic is modulo 2^64; a negative number n stands for        *)
(* 2^64 + n, so that ++ and -- are +1 and -1 and "sz == 0" is n = 0.       *)
(***************************************************************************)
EXTENDS Integers, Sequences, FiniteSets, TLC

MaxInterior == 3
MaxVal == 2

Null == 0
Nodes == 1..(MaxInterior + 4)
Vals == 1..MaxVal
Lists == {"A", "B"}
NoList == "none"

None == "none"
InvalidIterator == "invalid_iterator"
EmptyContainer == "container_is_empty"
BadAlloc == "bad_alloc"
Crash == "crash"

VARIABLES heap, alive, erased, lists, it, res, broken

vars == <<heap, alive, erased, lists, it, res, broken>>

---------------------------------------------------------------------------
(* node: prev, next, val; val = Null for a sentinel *)

node(value) == [prev |-> Null, next |-> Null, val |-> value]

DeadCell == node(Null)

NoIt == [cur |-> Null, owner |-> NoList]

Iter(o, c) == [cur |-> c, owner |-> o]

NoRet == [cur |-> Null, owner |-> NoList, val |-> Null]

RetIt(i) == [cur |-> i.cur, owner |-> i.owner, val |-> Null]

RetVal(v) == [cur |-> Null, owner |-> NoList, val |-> v]

NoListRec == [head |-> Null, tail |-> Null, sz |-> 0]

(* the memory and the list objects, as one value the operations thread *)
Cur == [heap |-> heap, alive |-> alive, erased |-> erased, lists |-> lists]

Out(st, exc, ret, u) == [st |-> st, exc |-> exc, ret |-> ret, ub |-> u]

Min(S) == CHOOSE x \in S : \A y \in S : x <= y

(* the addresses `new` may return: any address that holds no live node.    *)
(* The program can tell two of them apart only when `it` still holds one   *)
(* of them, so the choice is between that address and one other.           *)
AllocChoices(st) ==
    LET free  == Nodes \ st.alive
        stale == free \cap {it.cur}
        rest  == free \ stale
    IN  stale \cup (IF rest = {} THEN {} ELSE {Min(rest)})

New(st, nd, value) ==
    [st EXCEPT !.alive = @ \cup {nd}, !.erased = @ \ {nd},
               !.heap[nd] = node(value)]

Delete(st, n) ==
    IF n \in st.alive
    THEN [st EXCEPT !.alive = @ \ {n},
                    !.heap[n] = DeadCell]
    ELSE st

(* what a read of a link / of val of node n may yield *)
Garbage(st, n) == st.alive \cup {Null, n}

LdPrev(st, n) == IF n \in st.alive THEN {st.heap[n].prev} ELSE Garbage(st, n)

LdNext(st, n) == IF n \in st.alive THEN {st.heap[n].next} ELSE Garbage(st, n)

LdVal(st, n) == IF n \in st.alive THEN {st.heap[n].val} ELSE Vals \cup {Null}

StPrev(st, n, v) == IF n \in st.alive THEN [st EXCEPT !.heap[n].prev = v] ELSE st

StNext(st, n, v) == IF n \in st.alive THEN [st EXCEPT !.heap[n].next = v] ELSE st

StVal(st, n, v) == IF n \in st.alive THEN [st EXCEPT !.heap[n].val = v] ELSE st

AddSz(st, l, d) == [st EXCEPT !.lists[l].sz = @ + d]

Dead(st, n) == n # Null /\ n \notin st.alive

Sentinels(st) == {st.lists[l].head : l \in Lists} \cup {st.lists[l].tail : l \in Lists}

(* the addresses `new node(value)` may return; the heap holds no more than *)
(* MaxInterior value nodes                                                 *)
AllocValueNode(st) ==
    IF Cardinality(st.alive \ Sentinels(st)) >= MaxInterior THEN {}
    ELSE AllocChoices(st)

CrashOut(st) == Out(st, Crash, NoRet, TRUE)

---------------------------------------------------------------------------
(* list::insert(iterator pos, const T &value) *)

(* InsertLink that forgets p->prev->next = nd *)
InsertLinkNoBack(st, s1, l, p, nd, pp) ==
    IF pp = Null THEN CrashOut(st)
    ELSE LET s2 == StPrev(s1, nd, pp)
             s3 == StNext(s2, nd, p)
             s5 == StPrev(s3, p, nd)
             s6 == AddSz(s5, l, 1)
         IN  Out(s6, None, RetIt(Iter(l, nd)), Dead(s1, p) \/ Dead(s1, pp))

InsertLink(st, s1, l, p, nd, pp) ==
    IF pp = Null THEN CrashOut(st)
    ELSE LET s2 == StPrev(s1, nd, pp)
             s3 == StNext(s2, nd, p)
             s4 == StNext(s3, pp, nd)
             s5 == StPrev(s4, p, nd)
             s6 == AddSz(s5, l, 1)
         IN  Out(s6, None, RetIt(Iter(l, nd)), Dead(s1, p) \/ Dead(s1, pp))

insert(st, l, pos, value) ==
    IF pos.owner # l \/ pos.cur = Null
    THEN {Out(st, InvalidIterator, NoRet, FALSE)}
    ELSE UNION { LET s1 == New(st, nd, value)
                 IN  { InsertLink(st, s1, l, pos.cur, nd, pp) :
                          pp \in LdPrev(s1, pos.cur) } :
                 nd \in AllocValueNode(st) }

(* list::erase(iterator pos) *)

(* EraseUnlink returning the erased position *)
EraseUnlinkRetErased(st, l, p, pp, pn) ==
    IF pp = Null THEN CrashOut(st)
    ELSE LET s1  == StNext(st, pp, pn)
             pn2 == IF p \in s1.alive THEN s1.heap[p].next ELSE pn
             pp2 == IF p \in s1.alive THEN s1.heap[p].prev ELSE pp
         IN  IF pn2 = Null THEN CrashOut(st)
             ELSE LET s2 == StPrev(s1, pn2, pp2)
                      s3 == [Delete(s2, p) EXCEPT !.erased = @ \cup {p}]
                      s4 == AddSz(s3, l, -1)
                  IN  Out(s4, None, RetIt(Iter(l, p)),
                          Dead(st, p) \/ Dead(st, pp) \/ Dead(st, pn2))

(* EraseUnlink that forgets p->next->prev = p->prev *)
EraseUnlinkOneWay(st, l, p, pp, pn) ==
    IF pp = Null THEN CrashOut(st)
    ELSE LET s1 == StNext(st, pp, pn)
             s3 == [Delete(s1, p) EXCEPT !.erased = @ \cup {p}]
             s4 == AddSz(s3, l, -1)
         IN  Out(s4, None, RetIt(Iter(l, pn)), Dead(st, p) \/ Dead(st, pp))

(* EraseUnlink without the --sz *)
EraseUnlinkNoDec(st, l, p, pp, pn) ==
    IF pp = Null THEN CrashOut(st)
    ELSE LET s1  == StNext(st, pp, pn)
             pn2 == IF p \in s1.alive THEN s1.heap[p].next ELSE pn
             pp2 == IF p \in s1.alive THEN s1.heap[p].prev ELSE pp
         IN  IF pn2 = Null THEN CrashOut(st)
             ELSE LET s2 == StPrev(s1, pn2, pp2)
                      s3 == [Delete(s2, p) EXCEPT !.erased = @ \cup {p}]
                  IN  Out(s3, None, RetIt(Iter(l, pn)),
                          Dead(st, p) \/ Dead(st, pp) \/ Dead(st, pn2))

EraseUnlink(st, l, p, pp, pn) ==
    IF pp = Null THEN CrashOut(st)
    ELSE LET s1  == StNext(st, pp, pn)
             pn2 == IF p \in s1.alive THEN s1.heap[p].next ELSE pn
             pp2 == IF p \in s1.alive THEN s1.heap[p].prev ELSE pp
         IN  IF pn2 = Null THEN CrashOut(st)
             ELSE LET s2 == StPrev(s1, pn2, pp2)
                      s3 == [Delete(s2, p) EXCEPT !.erased = @ \cup {p}]
                      s4 == AddSz(s3, l, -1)
                  IN  Out(s4, None, RetIt(Iter(l, pn)),
                          Dead(st, p) \/ Dead(st, pp) \/ Dead(st, pn2))

(* erase testing the count before the iterator *)
eraseCountFirst(st, l, pos) ==
    IF st.lists[l].sz = 0
    THEN {Out(st, EmptyContainer, NoRet, FALSE)}
    ELSE IF pos.owner # l \/ pos.cur = Null
    THEN {Out(st, InvalidIterator, NoRet, FALSE)}
    ELSE IF pos.cur = st.lists[l].tail
    THEN {Out(st, InvalidIterator, NoRet, FALSE)}
    ELSE LET p == pos.cur
         IN  UNION { IF pv = Null
                     THEN {Out(st, InvalidIterator, NoRet, Dead(st, p))}
                     ELSE { EraseUnlink(st, l, p, pp, pn) :
                              pp \in LdPrev(st, p), pn \in LdNext(st, p) } :
                     pv \in LdVal(st, p) }

(* erase counting the element down before it rejects end() *)
eraseLateThrow(st, l, pos) ==
    IF pos.owner # l \/ pos.cur = Null
    THEN {Out(st, InvalidIterator, NoRet, FALSE)}
    ELSE IF st.lists[l].sz = 0
    THEN {Out(st, EmptyContainer, NoRet, FALSE)}
    ELSE IF pos.cur = st.lists[l].tail
    THEN {Out(AddSz(st, l, -1), InvalidIterator, NoRet, FALSE)}
    ELSE LET p == pos.cur
         IN  UNION { IF pv = Null
                     THEN {Out(st, InvalidIterator, NoRet, Dead(st, p))}
                     ELSE { EraseUnlink(st, l, p, pp, pn) :
                              pp \in LdPrev(st, p), pn \in LdNext(st, p) } :
                     pv \in LdVal(st, p) }

erase(st, l, pos) ==
    IF pos.owner # l \/ pos.cur = Null
    THEN {Out(st, InvalidIterator, NoRet, FALSE)}
    ELSE IF st.lists[l].sz = 0
    THEN {Out(st, EmptyContainer, NoRet, FALSE)}
    ELSE IF pos.cur = st.lists[l].tail
    THEN {Out(st, InvalidIterator, NoRet, FALSE)}
    ELSE LET p == pos.cur
         IN  UNION { IF pv = Null
                     THEN {Out(st, InvalidIterator, NoRet, Dead(st, p))}
                     ELSE { EraseUnlink(st, l, p, pp, pn) :
                              pp \in LdPrev(st, p), pn \in LdNext(st, p) } :
                     pv \in LdVal(st, p) }

---------------------------------------------------------------------------
(* list::begin / end *)

begin(st, l) ==
    Iter(l, IF st.lists[l].sz # 0 THEN st.heap[st.lists[l].head].next
                                  ELSE st.lists[l].tail)

end(st, l) == Iter(l, st.lists[l].tail)

---------------------------------------------------------------------------
(* the wrappers and the loops over the chain.  Fuel bounds a walk; a walk  *)
(* that meets nullptr or a deleted node ends the run.                      *)

Fuel == MaxInterior + 6

BadPtr(st, p) == p = Null \/ p \notin st.alive

(* list::push_back / push_front *)
(* push_back inserting at begin() *)
push_backAtBegin(st, l, value) == insert(st, l, begin(st, l), value)

push_back(st, l, value) == insert(st, l, end(st, l), value)

push_front(st, l, value) == insert(st, l, begin(st, l), value)

(* pop_back erasing at begin() *)
pop_backAtBegin(st, l) ==
    IF st.lists[l].sz = 0 THEN {Out(st, EmptyContainer, NoRet, FALSE)}
    ELSE { Out(r.st, r.exc, NoRet, r.ub) :
             r \in erase(st, l, Iter(l, st.heap[st.lists[l].head].next)) }

(* list::pop_back / pop_front *)
pop_back(st, l) ==
    IF st.lists[l].sz = 0 THEN {Out(st, EmptyContainer, NoRet, FALSE)}
    ELSE { Out(r.st, r.exc, NoRet, r.ub) :
             r \in erase(st, l, Iter(l, st.heap[st.lists[l].tail].prev)) }

pop_front(st, l) ==
    IF st.lists[l].sz = 0 THEN {Out(st, EmptyContainer, NoRet, FALSE)}
    ELSE { Out(r.st, r.exc, NoRet, r.ub) :
             r \in erase(st, l, Iter(l, st.heap[st.lists[l].head].next)) }

(* list::front / back *)
front(st, l) ==
    IF st.lists[l].sz = 0 THEN Out(st, EmptyContainer, NoRet, FALSE)
    ELSE LET v == st.heap[st.heap[st.lists[l].head].next].val
         IN  IF v = Null THEN CrashOut(st) ELSE Out(st, None, RetVal(v), FALSE)

back(st, l) ==
    IF st.lists[l].sz = 0 THEN Out(st, EmptyContainer, NoRet, FALSE)
    ELSE LET v == st.heap[st.heap[st.lists[l].tail].prev].val
         IN  IF v = Null THEN CrashOut(st) ELSE Out(st, None, RetVal(v), FALSE)

(* list::clear *)
RECURSIVE ClearLoop(_, _, _, _)
ClearLoop(st, p, t, fuel) ==
    IF p = t THEN Out(st, None, NoRet, FALSE)
    ELSE IF BadPtr(st, p) \/ fuel = 0 THEN CrashOut(st)
    ELSE ClearLoop(Delete(st, p), st.heap[p].next, t, fuel - 1)

clear(st, l) ==
    LET h == st.lists[l].head
        t == st.lists[l].tail
        r == ClearLoop(st, st.heap[h].next, t, Fuel)
    IN  IF r.exc # None THEN r
        ELSE Out([r.st EXCEPT !.heap[h].next = t, !.heap[t].prev = h,
                              !.lists[l].sz = 0], None, NoRet, FALSE)

(* the loop of the copy constructor and of operator=: push_back of every   *)
(* value of other, from other.head->next to other.tail                     *)
RECURSIVE CopyLoop(_, _, _, _, _)
CopyLoop(st, l, o, p, fuel) ==
    IF p = st.lists[o].tail THEN {Out(st, None, NoRet, FALSE)}
    ELSE IF BadPtr(st, p) \/ fuel = 0 THEN {CrashOut(st)}
    ELSE IF st.heap[p].val = Null THEN {CrashOut(st)}
    ELSE UNION { IF r.exc # None \/ r.ub THEN {Out(r.st, r.exc, NoRet, r.ub)}
                 ELSE CopyLoop(r.st, l, o, r.st.heap[p].next, fuel - 1) :
                 r \in push_back(st, l, st.heap[p].val) }

(* list::list() *)
list(st, l, h, t) ==
    LET s1 == New(New(st, h, Null), t, Null)
    IN  [s1 EXCEPT !.heap[h].next = t, !.heap[t].prev = h,
                   !.lists[l] = [head |-> h, tail |-> t, sz |-> 0]]

(* list::list(const list &other) *)
listCopy(st, l, o, h, t) ==
    LET s1 == list(st, l, h, t)
    IN  CopyLoop(s1, l, o, s1.heap[s1.lists[o].head].next, Fuel)

(* list::~list(): clear, then delete head and tail *)
listDtor(st, l) ==
    LET c == clear(st, l)
    IN  IF c.exc # None THEN c
        ELSE Out(Delete(Delete(c.st, c.st.lists[l].head), c.st.lists[l].tail),
                 None, NoRet, FALSE)

(* list::operator= *)
assign(st, l, o) ==
    IF l = o THEN {Out(st, None, NoRet, FALSE)}
    ELSE LET c == clear(st, l)
         IN  IF c.exc # None THEN {c}
             ELSE CopyLoop(c.st, l, o, c.st.heap[c.st.lists[o].head].next, Fuel)

---------------------------------------------------------------------------
(* iterator: the outcome of an operator is the iterator afterwards, the    *)
(* exception signalled, the value returned and whether a deleted node was  *)
(* read                                                                    *)

IOut(i, exc, ret, u) == [i |-> i, exc |-> exc, ret |-> ret, ub |-> u]

(* iterator::operator++(int) *)
PostInc(st, i) ==
    IF i.owner = NoList \/ i.cur = Null \/ i.cur = st.lists[i.owner].tail
    THEN {IOut(i, InvalidIterator, NoRet, FALSE)}
    ELSE { IOut(Iter(i.owner, n), None, RetIt(i), Dead(st, i.cur)) :
             n \in LdNext(st, i.cur) }

(* iterator::operator++() *)
PreInc(st, i) ==
    IF i.owner = NoList \/ i.cur = Null \/ i.cur = st.lists[i.owner].tail
    THEN {IOut(i, InvalidIterator, NoRet, FALSE)}
    ELSE { IOut(Iter(i.owner, n), None, RetIt(Iter(i.owner, n)), Dead(st, i.cur)) :
             n \in LdNext(st, i.cur) }

(* iterator::operator--(int) *)
PostDec(st, i) ==
    IF i.owner = NoList \/ i.cur = Null
    THEN {IOut(i, InvalidIterator, NoRet, FALSE)}
    ELSE IF i.cur = st.lists[i.owner].head
    THEN {IOut(i, InvalidIterator, NoRet, FALSE)}
    ELSE IF i.cur = st.lists[i.owner].tail
    THEN IF st.lists[i.owner].sz = 0
         THEN {IOut(i, InvalidIterator, NoRet, FALSE)}
         ELSE {IOut(Iter(i.owner, st.heap[st.lists[i.owner].tail].prev), None,
                    RetIt(i), FALSE)}
    ELSE { IF p = st.lists[i.owner].head
           THEN IOut(i, InvalidIterator, NoRet, Dead(st, i.cur))
           ELSE IOut(Iter(i.owner, p), None, RetIt(i), Dead(st, i.cur)) :
             p \in LdPrev(st, i.cur) }

(* iterator::operator--() *)
PreDec(st, i) ==
    IF i.owner = NoList \/ i.cur = Null
    THEN {IOut(i, InvalidIterator, NoRet, FALSE)}
    ELSE IF i.cur = st.lists[i.owner].head
    THEN {IOut(i, InvalidIterator, NoRet, FALSE)}
    ELSE IF i.cur = st.lists[i.owner].tail
    THEN IF st.lists[i.owner].sz = 0
         THEN {IOut(i, InvalidIterator, NoRet, FALSE)}
         ELSE LET j == Iter(i.owner, st.heap[st.lists[i.owner].tail].prev)
              IN  {IOut(j, None, RetIt(j), FALSE)}
    ELSE { IF p = st.lists[i.owner].head
           THEN IOut(i, InvalidIterator, NoRet, Dead(st, i.cur))
           ELSE IOut(Iter(i.owner, p), None, RetIt(Iter(i.owner, p)),
                     Dead(st, i.cur)) :
             p \in LdPrev(st, i.cur) }

(* iterator::operator*() *)
Deref(st, i) ==
    IF i.owner = NoList \/ i.cur = Null
    THEN {IOut(i, InvalidIterator, NoRet, FALSE)}
    ELSE { IF v = Null
           THEN IOut(i, InvalidIterator, NoRet, Dead(st, i.cur))
           ELSE IOut(i, None, RetVal(v), Dead(st, i.cur)) :
             v \in LdVal(st, i.cur) }

(* iterator::operator->() *)
Arrow(st, i) ==
    IF i.owner = NoList \/ i.cur = Null
    THEN {IOut(i, InvalidIterator, NoRet, FALSE)}
    ELSE { IF v = Null
           THEN IOut(i, InvalidIterator, NoRet, Dead(st, i.cur))
           ELSE IOut(i, None, RetVal(v), Dead(st, i.cur)) :
             v \in LdVal(st, i.cur) }

(* const_iterator::operator++(int) *)
ConstPostInc(st, i) ==
    IF i.owner = NoList \/ i.cur = Null \/ i.cur = st.lists[i.owner].tail
    THEN {IOut(i, InvalidIterator, NoRet, FALSE)}
    ELSE { IOut(Iter(i.owner, n), None, RetIt(i), Dead(st, i.cur)) :
             n \in LdNext(st, i.cur) }

(* const_iterator::operator++() *)
ConstPreInc(st, i) ==
    IF i.owner = NoList \/ i.cur = Null \/ i.cur = st.lists[i.owner].tail
    THEN {IOut(i, InvalidIterator, NoRet, FALSE)}
    ELSE { IOut(Iter(i.owner, n), None, RetIt(Iter(i.owner, n)), Dead(st, i.cur)) :
             n \in LdNext(st, i.cur) }

(* const_iterator::operator--(int) *)
ConstPostDec(st, i) ==
    IF i.owner = NoList \/ i.cur = Null
    THEN {IOut(i, InvalidIterator, NoRet, FALSE)}
    ELSE IF i.cur = st.lists[i.owner].head
    THEN {IOut(i, InvalidIterator, NoRet, FALSE)}
    ELSE IF i.cur = st.lists[i.owner].tail
    THEN IF st.lists[i.owner].sz = 0
         THEN {IOut(i, InvalidIterator, NoRet, FALSE)}
         ELSE {IOut(Iter(i.owner, st.heap[st.lists[i.owner].tail].prev), None,
                    RetIt(i), FALSE)}
    ELSE { IF p = st.lists[i.owner].head
           THEN IOut(i, InvalidIterator, NoRet, Dead(st, i.cur))
           ELSE IOut(Iter(i.owner, p), None, RetIt(i), Dead(st, i.cur)) :
             p \in LdPrev(st, i.cur) }

(* const_iterator::operator--() *)
ConstPreDec(st, i) ==
    IF i.owner = NoList \/ i.cur = Null
    THEN {IOut(i, InvalidIterator, NoRet, FALSE)}
    ELSE IF i.cur = st.lists[i.owner].head
    THEN {IOut(i, InvalidIterator, NoRet, FALSE)}
    ELSE IF i.cur = st.lists[i.owner].tail
    THEN IF st.lists[i.owner].sz = 0
         THEN {IOut(i, InvalidIterator, NoRet, FALSE)}
         ELSE LET j == Iter(i.owner, st.heap[st.lists[i.owner].tail].prev)
              IN  {IOut(j, None, RetIt(j), FALSE)}
    ELSE { IF p = st.lists[i.owner].head
           THEN IOut(i, InvalidIterator, NoRet, Dead(st, i.cur))
           ELSE IOut(Iter(i.owner, p), None, RetIt(Iter(i.owner, p)),
                     Dead(st, i.cur)) :
             p \in LdPrev(st, i.cur) }

(* const_iterator::operator*() *)
ConstDeref(st, i) ==
    IF i.owner = NoList \/ i.cur = Null
    THEN {IOut(i, InvalidIterator, NoRet, FALSE)}
    ELSE { IF v = Null
           THEN IOut(i, InvalidIterator, NoRet, Dead(st, i.cur))
           ELSE IOut(i, None, RetVal(v), Dead(st, i.cur)) :
             v \in LdVal(st, i.cur) }

(* const_iterator::operator->() *)
ConstArrow(st, i) ==
    IF i.owner = NoList \/ i.cur = Null
    THEN {IOut(i, InvalidIterator, NoRet, FALSE)}
    ELSE { IF v = Null
           THEN IOut(i, InvalidIterator, NoRet, Dead(st, i.cur))
           ELSE IOut(i, None, RetVal(v), Dead(st, i.cur)) :
             v \in LdVal(st, i.cur) }

(* list::cbegin / cend *)
cbegin(st, l) ==
    Iter(l, IF st.lists[l].sz # 0 THEN st.heap[st.lists[l].head].next
                                  ELSE st.lists[l].tail)

cend(st, l) == Iter(l, st.lists[l].tail)

---------------------------------------------------------------------------
(* the nodes from p to t by next links, t excluded; the walk stops at      *)
(* nullptr, at a deleted node and when the fuel is spent                   *)
RECURSIVE Walk(_, _, _, _)
Walk(st, p, t, fuel) ==
    IF p = t \/ BadPtr(st, p) \/ fuel = 0 THEN <<>>
    ELSE <<p>> \o Walk(st, st.heap[p].next, t, fuel - 1)

RECURSIVE Reaches(_, _, _, _)
Reaches(st, p, t, fuel) ==
    IF p = t THEN TRUE
    ELSE IF BadPtr(st, p) \/ fuel = 0 THEN FALSE
    ELSE Reaches(st, st.heap[p].next, t, fuel - 1)

(* the value nodes of list l, in order *)
Chain(st, l) == Walk(st, st.heap[st.lists[l].head].next, st.lists[l].tail, Fuel)

Range(q) == {q[i] : i \in 1..Len(q)}

(* no node of q holds a value less than that of an earlier node *)
Sorted(st, q) ==
    \A i, j \in 1..Len(q) : i < j => ~(st.heap[q[j]].val < st.heap[q[i]].val)

(* the external sort utility sjtu::sort(first, last, cmp): the array       *)
(* reordered so that no element is cmp-less than an earlier one            *)
SortUtility(st, arr) ==
    { q \in { [i \in 1..Len(arr) |-> arr[f[i]]] : f \in Permutations(1..Len(arr)) } :
        \A i, j \in 1..Len(q) : i < j => ~(st.heap[q[j]].val < st.heap[q[i]].val) }

(* Relink without the assignments to prev *)
RECURSIVE RelinkNextOnly(_, _, _)
RelinkNextOnly(st, arr, k) ==
    IF k > Len(arr) THEN st
    ELSE RelinkNextOnly(StNext(st, arr[k - 1], arr[k]), arr, k + 1)

(* the relinking loop of list::sort *)
RECURSIVE Relink(_, _, _)
Relink(st, arr, k) ==
    IF k > Len(arr) THEN st
    ELSE Relink(StPrev(StNext(st, arr[k - 1], arr[k]), arr[k], arr[k - 1]), arr, k + 1)

(* list::sort *)
sort(st, l) ==
    IF st.lists[l].sz \in {0, 1} THEN {Out(st, None, NoRet, FALSE)}
    ELSE IF st.lists[l].sz < 0 THEN {Out(st, BadAlloc, NoRet, FALSE)}
    ELSE LET h == st.lists[l].head
             t == st.lists[l].tail
             arr == Chain(st, l)
         IN  IF Len(arr) # st.lists[l].sz
                \/ ~Reaches(st, st.heap[h].next, t, Fuel)
                \/ \E i \in 1..Len(arr) : st.heap[arr[i]].val = Null
             THEN {CrashOut(st)}
             ELSE { LET s1 == StPrev(StNext(st, h, q[1]), q[1], h)
                        s2 == Relink(s1, q, 2)
                        s3 == StPrev(StNext(s2, q[Len(q)], t), t, q[Len(q)])
                    IN  Out(s3, None, NoRet, FALSE) : q \in SortUtility(st, arr) }

(* list::merge: the comparison of the value of p2 with the value of p1 *)
MergeLessEq(st, p2, p1) == st.heap[p2].val <= st.heap[p1].val

MergeLess(st, p2, p1) == st.heap[p2].val < st.heap[p1].val

(* list::merge: the while loop *)
RECURSIVE MergeLoop(_, _, _, _, _, _)
MergeLoop(st, l, o, p1, p2, fuel) ==
    IF p1 = st.lists[l].tail \/ p2 = st.lists[o].tail
    THEN [st |-> st, p2 |-> p2, ok |-> TRUE]
    ELSE IF BadPtr(st, p1) \/ BadPtr(st, p2) \/ fuel = 0
    THEN [st |-> st, p2 |-> p2, ok |-> FALSE]
    ELSE IF st.heap[p1].val = Null \/ st.heap[p2].val = Null
    THEN [st |-> st, p2 |-> p2, ok |-> FALSE]
    ELSE IF MergeLess(st, p2, p1)
    THEN LET n2 == st.heap[p2].next
             a  == st.heap[p2].prev
         IN  IF BadPtr(st, a) \/ BadPtr(st, n2)
             THEN [st |-> st, p2 |-> p2, ok |-> FALSE]
             ELSE LET s1 == StNext(st, a, n2)
                      s2 == StPrev(s1, s1.heap[p2].next, s1.heap[p2].prev)
                      s3 == StPrev(s2, p2, s2.heap[p1].prev)
                      s4 == StNext(s3, p2, p1)
                      b  == s4.heap[p1].prev
                  IN  IF BadPtr(s4, b)
                      THEN [st |-> s4, p2 |-> p2, ok |-> FALSE]
                      ELSE LET s5 == StNext(s4, b, p2)
                               s6 == StPrev(s5, p1, p2)
                               s7 == AddSz(AddSz(s6, l, 1), o, -1)
                           IN  MergeLoop(s7, l, o, p1, n2, fuel - 1)
    ELSE MergeLoop(st, l, o, st.heap[p1].next, p2, fuel - 1)

(* MergeRest without the two count updates *)
MergeRestNoCount(st, l, o, p2) ==
    IF p2 = st.lists[o].tail THEN Out(st, None, NoRet, FALSE)
    ELSE LET first == p2
             last  == st.heap[st.lists[o].tail].prev
             s1 == StNext(st, st.lists[o].head, st.lists[o].tail)
             s2 == StPrev(s1, st.lists[o].tail, st.lists[o].head)
             t  == s2.lists[l].tail
             s4 == StNext(s2, last, t)
             s5 == StPrev(s4, first, s4.heap[t].prev)
             s6 == StNext(s5, s5.heap[t].prev, first)
             s7 == StPrev(s6, t, last)
         IN  Out(s7, None, NoRet, FALSE)

(* list::merge: the splice of what is left of other before tail *)
MergeRest(st, l, o, p2) ==
    IF p2 = st.lists[o].tail THEN Out(st, None, NoRet, FALSE)
    ELSE LET first == p2
             last  == st.heap[st.lists[o].tail].prev
             s1 == StNext(st, st.lists[o].head, st.lists[o].tail)
             s2 == StPrev(s1, st.lists[o].tail, st.lists[o].head)
             run == Walk(s2, first, s2.heap[last].next, Fuel)
         IN  IF run = <<>> \/ run[Len(run)] # last THEN CrashOut(st)
             ELSE LET moved == Len(run)
                      s3 == AddSz(AddSz(s2, o, 0 - moved), l, moved)
                      t  == s3.lists[l].tail
                      s4 == StNext(s3, last, t)
                      s5 == StPrev(s4, first, s4.heap[t].prev)
                      s6 == StNext(s5, s5.heap[t].prev, first)
                      s7 == StPrev(s6, t, last)
                  IN  Out(s7, None, NoRet, FALSE)

(* list::merge *)
merge(st, l, o) ==
    IF l = o \/ st.lists[o].sz = 0 THEN Out(st, None, NoRet, FALSE)
    ELSE LET w == MergeLoop(st, l, o, st.heap[st.lists[l].head].next,
                            st.heap[st.lists[o].head].next, 2 * Fuel)
         IN  IF ~w.ok THEN CrashOut(w.st) ELSE MergeRest(w.st, l, o, w.p2)

(* list::reverse: the for loop, k iterations left *)
RECURSIVE ReverseLoop(_, _, _, _)
ReverseLoop(st, lft, rgt, k) ==
    IF k = 0 THEN Out(st, None, NoRet, FALSE)
    ELSE IF BadPtr(st, lft) \/ BadPtr(st, rgt) THEN CrashOut(st)
    ELSE LET tmp == st.heap[lft].val
             s1 == StVal(st, lft, st.heap[rgt].val)
             s2 == StVal(s1, rgt, tmp)
         IN  ReverseLoop(s2, s2.heap[lft].next, s2.heap[rgt].prev, k - 1)

(* reverse with one swap per element: every pair is swapped twice *)
reverseEveryIndex(st, l) ==
    IF st.lists[l].sz \in {0, 1} THEN Out(st, None, NoRet, FALSE)
    ELSE ReverseLoop(st, st.heap[st.lists[l].head].next,
                     st.heap[st.lists[l].tail].prev,
                     IF st.lists[l].sz < 0 THEN Fuel ELSE st.lists[l].sz)

(* list::reverse *)
reverse(st, l) ==
    IF st.lists[l].sz \in {0, 1} THEN Out(st, None, NoRet, FALSE)
    ELSE ReverseLoop(st, st.heap[st.lists[l].head].next,
                     st.heap[st.lists[l].tail].prev,
                     IF st.lists[l].sz < 0 THEN Fuel ELSE st.lists[l].sz \div 2)

(* UniqueLoop with `if` for the inner `while`: one node removed per run *)
RECURSIVE UniqueLoopOnce(_, _, _, _, _)
UniqueLoopOnce(st, l, p, n, fuel) ==
    IF p = st.lists[l].tail THEN Out(st, None, NoRet, FALSE)
    ELSE IF BadPtr(st, p) \/ fuel = 0 THEN CrashOut(st)
    ELSE IF n = st.lists[l].tail THEN UniqueLoopOnce(st, l, n, n, fuel - 1)
    ELSE IF BadPtr(st, n) THEN CrashOut(st)
    ELSE IF st.heap[p].val = Null \/ st.heap[n].val = Null THEN CrashOut(st)
    ELSE IF ~(st.heap[p].val # st.heap[n].val)
    THEN LET del == n
             nn  == st.heap[n].next
             a   == st.heap[del].prev
         IN  IF BadPtr(st, a) \/ BadPtr(st, nn) THEN CrashOut(st)
             ELSE LET s1 == StNext(st, a, st.heap[del].next)
                      s2 == StPrev(s1, s1.heap[del].next, s1.heap[del].prev)
                      s3 == Delete(s2, del)
                      s4 == AddSz(s3, l, -1)
                  IN  IF nn = s4.lists[l].tail THEN Out(s4, None, NoRet, FALSE)
                      ELSE UniqueLoopOnce(s4, l, nn, s4.heap[nn].next, fuel - 1)
    ELSE IF BadPtr(st, st.heap[n].next) THEN CrashOut(st)
    ELSE UniqueLoopOnce(st, l, n, st.heap[n].next, fuel - 1)

(* list::unique: the two nested loops; p the node kept, n the candidate *)
RECURSIVE UniqueLoop(_, _, _, _, _)
UniqueLoop(st, l, p, n, fuel) ==
    IF p = st.lists[l].tail THEN Out(st, None, NoRet, FALSE)
    ELSE IF BadPtr(st, p) \/ fuel = 0 THEN CrashOut(st)
    ELSE IF n = st.lists[l].tail THEN UniqueLoop(st, l, n, n, fuel - 1)
    ELSE IF BadPtr(st, n) THEN CrashOut(st)
    ELSE IF st.heap[p].val = Null \/ st.heap[n].val = Null THEN CrashOut(st)
    ELSE IF ~(st.heap[p].val # st.heap[n].val)
    THEN LET del == n
             nn  == st.heap[n].next
             a   == st.heap[del].prev
         IN  IF BadPtr(st, a) \/ BadPtr(st, nn) THEN CrashOut(st)
             ELSE LET s1 == StNext(st, a, st.heap[del].next)
                      s2 == StPrev(s1, s1.heap[del].next, s1.heap[del].prev)
                      s3 == Delete(s2, del)
                      s4 == AddSz(s3, l, -1)
                  IN  UniqueLoop(s4, l, p, nn, fuel - 1)
    ELSE IF BadPtr(st, st.heap[n].next) THEN CrashOut(st)
    ELSE UniqueLoop(st, l, n, st.heap[n].next, fuel - 1)

(* list::unique *)
unique(st, l) ==
    IF st.lists[l].sz \in {0, 1} THEN Out(st, None, NoRet, FALSE)
    ELSE LET p == st.heap[st.lists[l].head].next
         IN  IF p = st.lists[l].tail THEN Out(st, None, NoRet, FALSE)
             ELSE UniqueLoop(st, l, p, st.heap[p].next, 2 * Fuel)

---------------------------------------------------------------------------
(* whether node n is linked into the chain of list l, sentinels included *)
InChain(st, l, n) ==
    n \in Range(Walk(st, st.lists[l].head, Null, Fuel))

(* the call op on list l with argument a ended with outcome r *)
CommitArg(r, op, l, a) ==
    /\ heap' = r.st.heap
    /\ alive' = r.st.alive
    /\ erased' = r.st.erased
    /\ lists' = r.st.lists
    /\ res' = [op |-> op, list |-> l, exc |-> r.exc, ret |-> r.ret, cit |-> NoIt, arg |-> a]

Commit(r, op, l) == CommitArg(r, op, l, 0)

ListStep(r, op, l) == Commit(r, op, l) /\ it' = it /\ broken' = r.ub

(* list<T> A, B; iterator it; *)
Idle == [op |-> "none", list |-> NoList, exc |-> None, ret |-> NoRet,
         cit |-> NoIt, arg |-> 0]

(* a statement may start *)
Ready == ~broken /\ res = Idle

Init ==
    /\ \E r \in { list(list([heap |-> [n \in Nodes |-> DeadCell], alive |-> {},
                               erased |-> {}, lists |-> [l \in Lists |-> NoListRec]],
                              "A", 1, 2), "B", 3, 4) } :
          /\ heap = r.heap
          /\ alive = r.alive
          /\ erased = r.erased
          /\ lists = r.lists
    /\ it = NoIt
    /\ res = Idle
    /\ broken = FALSE

(* it = l.insert(it, v), or l.insert(it, v) with the result dropped *)
Insert(l, v, keep) ==
    /\ Ready
    /\ \E r \in insert(Cur, l, it, v) :
          /\ CommitArg(r, "insert", l, v)
          /\ it' = IF keep \/ r.exc # None THEN it ELSE Iter(r.ret.owner, r.ret.cur)
          /\ broken' = (r.ub \/ (r.exc = None /\ ~InChain(Cur, l, it.cur)))

(* it = l.erase(l.insert(it, v)) *)
InsertErase(l, v) ==
    /\ Ready
    /\ \E r1 \in insert(Cur, l, it, v) :
          \E r2 \in IF r1.exc # None THEN {r1}
                     ELSE { Out(e.st, e.exc, e.ret, e.ub \/ r1.ub) :
                              e \in erase(r1.st, l, Iter(r1.ret.owner, r1.ret.cur)) } :
             /\ CommitArg(r2, "erase(insert)", l, v)
             /\ it' = IF r2.exc # None THEN it ELSE Iter(r2.ret.owner, r2.ret.cur)
             /\ broken' = (r2.ub \/ (r1.exc = None /\ ~InChain(Cur, l, it.cur)))

(* it = l.erase(it), or l.erase(it) with the result dropped *)
Erase(l, keep) ==
    /\ Ready
    /\ \E r \in erase(Cur, l, it) :
          /\ Commit(r, "erase", l)
          /\ it' = IF keep \/ r.exc # None THEN it ELSE Iter(r.ret.owner, r.ret.cur)
          /\ broken' = (r.ub \/ (r.exc = None /\ ~InChain(Cur, l, it.cur)))

Begin(l) ==
    /\ Ready
    /\ Commit(Out(Cur, None, RetIt(begin(Cur, l)), FALSE), "begin", l)
    /\ it' = begin(Cur, l)
    /\ broken' = FALSE

End(l) ==
    /\ Ready
    /\ Commit(Out(Cur, None, RetIt(end(Cur, l)), FALSE), "end", l)
    /\ it' = end(Cur, l)
    /\ broken' = FALSE

(* const_iterator c = l.cbegin() / l.cend() *)
CBegin(l) ==
    /\ Ready
    /\ Commit(Out(Cur, None, RetIt(cbegin(Cur, l)), FALSE), "cbegin", l)
    /\ it' = it
    /\ broken' = FALSE

CEnd(l) ==
    /\ Ready
    /\ Commit(Out(Cur, None, RetIt(cend(Cur, l)), FALSE), "cend", l)
    /\ it' = it
    /\ broken' = FALSE

Assign(l, o) ==
    Ready /\ \E r \in assign(Cur, l, o) :
        ListStep(r, IF l = o THEN "operator=(self)" ELSE "operator=", l)

(* l.~list(); new (&l) list<T>(o): the object l ends its life and is     *)
(* constructed again, in place, as a copy of o; the program does this     *)
(* while `it` references no node of l and no destroyed node               *)
Copy(l, o) ==
    /\ Ready
    /\ l # o
    /\ it.cur \in {Null} \cup (alive \ Range(Walk(Cur, lists[l].head, Null, Fuel)))
    /\ LET d == listDtor(Cur, l)
       IN  IF d.exc # None THEN ListStep(d, "list(copy)", l)
           ELSE \E h \in AllocChoices(d.st) :
                  \E t \in AllocChoices(New(d.st, h, Null)) :
                    \E r \in listCopy(d.st, l, o, h, t) :
                      ListStep(r, "list(copy)", l)

Front(l) == Ready /\ \E r \in {front(Cur, l)} : ListStep(r, "front", l)

Back(l) == Ready /\ \E r \in {back(Cur, l)} : ListStep(r, "back", l)

Size(l) == Ready /\ ListStep(Out(Cur, None, RetVal(lists[l].sz), FALSE), "size", l)

Clear(l) == Ready /\ \E r \in {clear(Cur, l)} : ListStep(r, "clear", l)

PushBack(l, v) ==
    /\ Ready
    /\ \E r \in push_back(Cur, l, v) :
          /\ CommitArg(Out(r.st, r.exc, NoRet, r.ub), "push_back", l, v)
          /\ it' = it
          /\ broken' = r.ub

PushFront(l, v) ==
    /\ Ready
    /\ \E r \in push_front(Cur, l, v) :
          /\ CommitArg(Out(r.st, r.exc, NoRet, r.ub), "push_front", l, v)
          /\ it' = it
          /\ broken' = r.ub

PopBack(l) == Ready /\ \E r \in pop_back(Cur, l) : ListStep(r, "pop_back", l)

PopFront(l) == Ready /\ \E r \in pop_front(Cur, l) : ListStep(r, "pop_front", l)

(* l.sort(); the label keeps whether l was out of order when called *)
Sort(l) ==
    /\ Ready
    /\ \E r \in sort(Cur, l) :
          /\ CommitArg(r, "sort", l, IF Sorted(Cur, Chain(Cur, l)) THEN 0 ELSE 1)
          /\ it' = it
          /\ broken' = r.ub

(* l.merge(o); the label keeps the count o had when it was passed *)
Merge(l, o) ==
    /\ Ready
    /\ \E r \in {merge(Cur, l, o)} :
          /\ heap' = r.st.heap
          /\ alive' = r.st.alive
          /\ erased' = r.st.erased
          /\ lists' = r.st.lists
          /\ res' = [op |-> IF l = o THEN "merge(self)" ELSE "merge", list |-> l,
                     exc |-> r.exc, ret |-> r.ret, cit |-> NoIt,
                     arg |-> lists[o].sz]
          /\ it' = it
          /\ broken' = r.ub

Reverse(l) == Ready /\ \E r \in {reverse(Cur, l)} : ListStep(r, "reverse", l)

Unique(l) == Ready /\ \E r \in {unique(Cur, l)} : ListStep(r, "unique", l)

(* an operator applied to the iterator variable `it` *)
ItStep(r, op) ==
    /\ it' = r.i
    /\ res' = [op |-> op, list |-> NoList, exc |-> r.exc, ret |-> r.ret, cit |-> NoIt, arg |-> 0]
    /\ broken' = r.ub
    /\ UNCHANGED <<heap, alive, erased, lists>>

(* const_iterator(const iterator &) *)
const_iterator(i) == Iter(i.owner, i.cur)

(* an operator applied to the temporary const_iterator(it) *)
CitStep(r, op) ==
    /\ res' = [op |-> op, list |-> NoList, exc |-> r.exc, ret |-> r.ret, cit |-> r.i, arg |-> 0]
    /\ broken' = r.ub
    /\ UNCHANGED <<heap, alive, erased, lists, it>>

ItPostInc == Ready /\ \E r \in PostInc(Cur, it) : ItStep(r, "it++")

ItPreInc == Ready /\ \E r \in PreInc(Cur, it) : ItStep(r, "++it")

ItPostDec == Ready /\ \E r \in PostDec(Cur, it) : ItStep(r, "it--")

ItPreDec == Ready /\ \E r \in PreDec(Cur, it) : ItStep(r, "--it")

ItDeref == Ready /\ \E r \in Deref(Cur, it) : ItStep(r, "*it")

ItArrow == Ready /\ \E r \in Arrow(Cur, it) : ItStep(r, "it->")

CitPostInc == Ready /\ \E r \in ConstPostInc(Cur, const_iterator(it)) : CitStep(r, "cit++")

CitPreInc == Ready /\ \E r \in ConstPreInc(Cur, const_iterator(it)) : CitStep(r, "++cit")

CitPostDec == Ready /\ \E r \in ConstPostDec(Cur, const_iterator(it)) : CitStep(r, "cit--")

CitPreDec == Ready /\ \E r \in ConstPreDec(Cur, const_iterator(it)) : CitStep(r, "--cit")

CitDeref == Ready /\ \E r \in ConstDeref(Cur, const_iterator(it)) : CitStep(r, "*cit")

CitArrow == Ready /\ \E r \in ConstArrow(Cur, const_iterator(it)) : CitStep(r, "cit->")

(* the end of the statement: the value returned, the exception object and *)
(* the temporaries go away                                                *)
Discard ==
    /\ ~broken
    /\ res # Idle
    /\ res' = Idle
    /\ UNCHANGED <<heap, alive, erased, lists, it, broken>>

Next ==
    \/ \E l \in Lists, v \in Vals, keep \in BOOLEAN : Insert(l, v, keep)
    \/ \E l \in Lists, keep \in BOOLEAN : Erase(l, keep)
    \/ \E l \in Lists, v \in Vals : InsertErase(l, v)
    \/ \E l \in Lists : Begin(l)
    \/ \E l \in Lists : End(l)
    \/ \E l \in Lists : CBegin(l)
    \/ \E l \in Lists : CEnd(l)
    \/ \E l, o \in Lists : Assign(l, o)
    \/ \E l, o \in Lists : Copy(l, o)
    \/ \E l \in Lists : Front(l)
    \/ \E l \in Lists : Back(l)
    \/ \E l \in Lists : Size(l)
    \/ \E l \in Lists : Clear(l)
    \/ \E l \in Lists, v \in Vals : PushBack(l, v)
    \/ \E l \in Lists, v \in Vals : PushFront(l, v)
    \/ \E l \in Lists : PopBack(l)
    \/ \E l \in Lists : PopFront(l)
    \/ \E l \in Lists : Sort(l)
    \/ \E l, o \in Lists : Merge(l, o)
    \/ \E l \in Lists : Reverse(l)
    \/ \E l \in Lists : Unique(l)
    \/ ItPostInc \/ ItPreInc \/ ItPostDec \/ ItPreDec \/ ItDeref \/ ItArrow
    \/ CitPostInc \/ CitPreInc \/ CitPostDec \/ CitPreDec \/ CitDeref \/ CitArrow
    \/ Discard

Spec == Init /\ [][Next]_vars

---------------------------------------------------------------------------
(* vocabulary of the properties *)

Other(l) == CHOOSE o \in Lists : o # l

ChainNow(l) == Chain(Cur, l)

ChainNext(l) == Chain(Cur', l)

Pos(q, n) == CHOOSE i \in 1..Len(q) : q[i] = n

IncDecOps == {"it++", "++it", "it--", "--it", "cit++", "++cit", "cit--", "--cit"}

DecOps == {"it--", "--it", "cit--", "--cit"}

DerefOps == {"*it", "it->", "*cit", "cit->"}

ConstOps == {"cit++", "++cit", "cit--", "--cit", "*cit", "cit->"}

Thrown == {InvalidIterator, EmptyContainer}

(* the position after an iterator operator: of `it`, or of the temporary *)
After == IF res'.op \in ConstOps THEN res'.cit ELSE it'

(* the four invariants of a list *)
ListInv(l) ==
    LET h == lists[l].head
        t == lists[l].tail
        q == ChainNow(l)
        all == <<h>> \o q \o <<t>>
    IN  /\ Reaches(Cur, h, t, Fuel)
        /\ \A i \in 1..Len(all) : all[i] \in alive
        /\ \A i \in 1..(Len(all) - 1) :
              heap[all[i]].next = all[i + 1] /\ heap[all[i + 1]].prev = all[i]
        /\ heap[h].prev = Null /\ heap[t].next = Null
        /\ lists[l].sz = Len(q)
        /\ heap[h].val = Null /\ heap[t].val = Null
        /\ \A i \in 1..Len(q) : heap[q[i]].val # Null

(* C1: as long as insert and erase are only handed iterators to nodes      *)
(* linked into the list they are called on, every list keeps mirrored      *)
(* links from head to tail, absent head.prev and tail.next, sz equal to    *)
(* the number of value nodes, value-less sentinels and valued interior     *)
(* nodes.                                                                  *)
C1_ListInvariants ==
    \/ broken /\ res.op \in {"insert", "erase", "erase(insert)"}
    \/ \A l \in Lists : ListInv(l)

C1_Witness ==
    /\ ~broken /\ res.op = "erase" /\ res.exc = None
    /\ lists[res.list].sz = 1

C3_InsertRejectsUnlinked ==
    [][res'.op = "insert"
         /\ (it.owner # res'.list \/ ~InChain(Cur, res'.list, it.cur))
         => res'.exc = InvalidIterator /\ heap' = heap /\ lists' = lists]_vars

(* C4 as claimed: an increment or decrement of an iterator that still      *)
(* references a node destroyed by a successful erase fails with            *)
(* InvalidIterator and never moves the iterator onto a live node.          *)
C4_StepOnErasedFails ==
    [][it.cur \in erased /\ res'.op \in IncDecOps
         => res'.exc = InvalidIterator /\ After.cur \notin alive']_vars

(* C5: merging two distinct ascending lists leaves this list ascending,    *)
(* holding the nodes of both; of two nodes of the same origin the earlier  *)
(* stays earlier, and a node of other stands before a node of this only    *)
(* when its value is strictly less.                                        *)
C5_MergeStable ==
    [][res'.op = "merge" /\ res'.exc = None
         /\ Sorted(Cur, ChainNow(res'.list))
         /\ Sorted(Cur, ChainNow(Other(res'.list)))
         => LET a == ChainNow(res'.list)
                b == ChainNow(Other(res'.list))
                q == ChainNext(res'.list)
            IN  /\ Len(q) = Len(a) + Len(b)
                /\ Range(q) = Range(a) \cup Range(b)
                /\ Sorted(Cur', q)
                /\ \A i, j \in 1..Len(a) : i < j => Pos(q, a[i]) < Pos(q, a[j])
                /\ \A i, j \in 1..Len(b) : i < j => Pos(q, b[i]) < Pos(q, b[j])
                /\ \A i \in 1..Len(a), j \in 1..Len(b) :
                      Pos(q, b[j]) < Pos(q, a[i])
                         => heap[b[j]].val < heap[a[i]].val]_vars

C5_Witness ==
    /\ res.op = "merge" /\ res.exc = None /\ ~broken
    /\ lists["A"].sz = 2 /\ res.list = "A"
    /\ LET q == ChainNow("A")
       IN  /\ Len(q) = 2 /\ heap[q[1]].val = heap[q[2]].val
           /\ res.arg = 1 /\ it = Iter("B", q[2])

(* C6: merge of two distinct lists, sorted or not, empties other (count   *)
(* zero, head linked to tail), adds its count to this list's and moves its *)
(* nodes into this list, no node created, destroyed or changed in value;   *)
(* merging a list into itself or merging an empty list changes nothing.    *)
C6_MergeMovesAll ==
    [][(res'.op = "merge" /\ res'.exc = None =>
          LET l == res'.list
              o == Other(res'.list)
          IN  IF lists[o].sz = 0
              THEN heap' = heap /\ lists' = lists /\ alive' = alive
              ELSE /\ lists'[o].sz = 0
                   /\ heap'[lists[o].head].next = lists[o].tail
                   /\ heap'[lists[o].tail].prev = lists[o].head
                   /\ lists'[l].sz = lists[l].sz + lists[o].sz
                   /\ Range(ChainNext(l)) = Range(ChainNow(l)) \cup Range(ChainNow(o))
                   /\ Len(ChainNext(l)) = Len(ChainNow(l)) + Len(ChainNow(o))
                   /\ alive' = alive /\ erased' = erased
                   /\ \A n \in Nodes : heap'[n].val = heap[n].val)
       /\ (res'.op = "merge(self)" =>
             res'.exc = None /\ heap' = heap /\ lists' = lists /\ alive' = alive)]_vars

C6_Witness ==
    /\ res.op = "merge" /\ res.exc = None /\ ~broken
    /\ lists[res.list].sz = 3 /\ lists[Other(res.list)].sz = 0
    /\ ~Sorted(Cur, ChainNow(res.list))
    /\ res.arg = 1 /\ it.owner = Other(res.list)
    /\ it.cur \in Range(ChainNow(res.list))

(* C7 as claimed: insert or erase called on a list never changes the chain *)
(* of the other list, never destroys one of its nodes and never leaves its *)
(* count different from the number of its value nodes, whatever live node  *)
(* the iterator passed references.                                         *)
C7_OtherListUntouched ==
    [][res'.op \in {"insert", "erase"} /\ it.cur \in alive =>
         LET a == Other(res'.list)
         IN  (\A l \in Lists : ListInv(l))
                => /\ ChainNext(a) = ChainNow(a)
                   /\ Range(ChainNow(a)) \subseteq alive'
                   /\ lists'[a].sz = Len(ChainNext(a))]_vars

(* C8 as claimed: a decrement moves an iterator at the tail sentinel of a  *)
(* non-empty list to the last element and an iterator at an element that   *)
(* is not the first to the predecessor; at the tail of an empty list, at a *)
(* first element and at a head sentinel it fails with InvalidIterator; a   *)
(* successful decrement never ends at a head sentinel or at no node, and   *)
(* post-decrement returns the position held before.                        *)
C8_Decrement ==
    [][res'.op \in DecOps /\ it.cur \in alive =>
         LET c == it.cur
             heads == {lists[l].head : l \in Lists}
             tails == {lists[l].tail : l \in Lists}
             p == heap[c].prev
         IN  /\ (c \in heads \/ p \in heads) => res'.exc = InvalidIterator
             /\ c \notin heads /\ p \notin heads
                   => res'.exc = None /\ After = Iter(it.owner, p)
             /\ res'.exc = None => After.cur \notin heads \cup {Null}
             /\ res'.exc = None /\ res'.op \in {"it--", "cit--"}
                   => res'.ret = RetIt(it)]_vars

(* C9 as claimed: dereference and member access return the value of the    *)
(* referenced node exactly when that node currently holds a value, and     *)
(* fail with InvalidIterator for a default-constructed iterator, for end() *)
(* and for an iterator whose node has been destroyed.                      *)
C9_Dereference ==
    [][res'.op \in DerefOps =>
         IF it.cur \in alive /\ heap[it.cur].val # Null
         THEN res'.exc = None /\ res'.ret = RetVal(heap[it.cur].val)
         ELSE res'.exc = InvalidIterator]_vars

(* C10: an operation that signals InvalidIterator or EmptyContainer leaves *)
(* the nodes, their links and values, the counts of both lists and the     *)
(* position of the iterator it was applied to as they were.                *)
C10_FailureChangesNothing ==
    [][res'.exc \in Thrown =>
         /\ heap' = heap /\ alive' = alive /\ erased' = erased /\ lists' = lists
         /\ it' = it
         /\ res'.op \in ConstOps => res'.cit = const_iterator(it)]_vars

C10_Witness ==
    /\ res.op = "erase" /\ res.exc = InvalidIterator
    /\ lists[res.list].sz = 2 /\ it = end(Cur, res.list)

(* sequence q without its k-th element / with x put before its k-th *)
Without(q, k) == [i \in 1..(Len(q) - 1) |-> IF i < k THEN q[i] ELSE q[i + 1]]

InsertAt(q, k, x) ==
    [i \in 1..(Len(q) + 1) |-> IF i < k THEN q[i] ELSE IF i = k THEN x ELSE q[i - 1]]

(* the values of the nodes of q *)
ValuesOf(st, q) == [i \in 1..Len(q) |-> st.heap[q[i]].val]

(* C11: erase(pos) with pos at a value node of the list removes exactly    *)
(* that node: the count drops by one, the other nodes keep their order,    *)
(* the iterator returned references the node that followed (end() after    *)
(* the last), and every other node stays alive with its value.             *)
C11_EraseRemovesOne ==
    [][res'.op = "erase" /\ it.owner = res'.list
         /\ it.cur \in Range(ChainNow(res'.list)) =>
         LET l == res'.list
             q == ChainNow(l)
             k == Pos(q, it.cur)
         IN  /\ res'.exc = None
             /\ lists'[l].sz = lists[l].sz - 1
             /\ ChainNext(l) = Without(q, k)
             /\ res'.ret = RetIt(Iter(l, IF k = Len(q) THEN lists[l].tail ELSE q[k + 1]))
             /\ k = Len(q) => res'.ret = RetIt(end(Cur', l))
             /\ alive' = alive \ {it.cur}
             /\ \A n \in alive' : heap'[n].val = heap[n].val
             /\ ChainNext(Other(l)) = ChainNow(Other(l))
             /\ lists'[Other(l)] = lists[Other(l)]]_vars

C11_Witness ==
    /\ res.op = "erase" /\ res.exc = None /\ ~broken
    /\ lists[res.list].sz = 0
    /\ res.ret = RetIt(end(Cur, res.list))
    /\ lists[Other(res.list)].sz = 2

(* C12: insert(pos, value) with pos at a value node or at the tail of the  *)
(* list links one new node holding value right before the node of pos,     *)
(* raises the count by one, returns an iterator that dereferences to value *)
(* and whose successor is the node of pos, and leaves every other node     *)
(* alive with its value.                                                   *)
C12_InsertBefore ==
    [][res'.op = "insert" /\ it.owner = res'.list
         /\ it.cur \in Range(ChainNow(res'.list)) \cup {lists[res'.list].tail} =>
         LET l == res'.list
             q == ChainNow(l)
             k == IF it.cur = lists[l].tail THEN Len(q) + 1 ELSE Pos(q, it.cur)
             nd == res'.ret.cur
             r == Iter(res'.ret.owner, nd)
         IN  /\ res'.exc = None
             /\ r.owner = l /\ nd \notin alive /\ alive' = alive \cup {nd}
             /\ lists'[l].sz = lists[l].sz + 1
             /\ ChainNext(l) = InsertAt(q, k, nd)
             /\ Deref(Cur', r) = {IOut(r, None, RetVal(res'.arg), FALSE)}
             /\ \A o \in PreInc(Cur', r) : o.exc = None /\ o.i = Iter(l, it.cur)
             /\ \A n \in alive : heap'[n].val = heap[n].val
             /\ ChainNext(Other(l)) = ChainNow(Other(l))
             /\ lists'[Other(l)] = lists[Other(l)]]_vars

C12_Witness ==
    /\ res.op = "insert" /\ res.exc = None /\ ~broken
    /\ lists[res.list].sz = 3
    /\ ChainNow(res.list)[2] = res.ret.cur
    /\ heap[res.ret.cur].val = res.arg

(* C13: it = l.erase(l.insert(pos, v)) with pos valid for insert restores  *)
(* the list: counts, live nodes, every link and value of the live nodes    *)
(* are as before, and the iterator returned equals pos.                    *)
C13_EraseInsertRestores ==
    [][res'.op = "erase(insert)" /\ it.owner = res'.list
         /\ it.cur \in Range(ChainNow(res'.list)) \cup {lists[res'.list].tail} =>
         /\ res'.exc = None
         /\ lists' = lists
         /\ alive' = alive
         /\ \A n \in alive : heap'[n] = heap[n]
         /\ \A l \in Lists : ChainNext(l) = ChainNow(l)
         /\ res'.ret = RetIt(it)
         /\ it' = it]_vars

C13_Witness ==
    /\ res.op = "erase(insert)" /\ res.exc = None /\ ~broken
    /\ lists[res.list].sz = 2
    /\ it = Iter(res.list, ChainNow(res.list)[2])

(* from iterator i, each value of vals is met in turn, one increment apart, *)
(* and the iterator then equals end()                                       *)
RECURSIVE Visits(_, _, _, _)
Visits(st, l, i, vals) ==
    IF vals = <<>> THEN i.cur = end(st, l).cur
    ELSE /\ i.cur # end(st, l).cur
         /\ Deref(st, i) = {IOut(i, None, RetVal(Head(vals)), FALSE)}
         /\ \A o \in PreInc(st, i) : o.exc = None /\ Visits(st, l, o.i, Tail(vals))

TraversalOK(st, l) ==
    LET vals == ValuesOf(st, Chain(st, l))
    IN  /\ st.lists[l].sz = Len(vals)
        /\ Visits(st, l, begin(st, l), vals)
        /\ vals = <<>> => begin(st, l) = end(st, l)

(* C14: a list starts empty with begin() = end(); each push_back(v) puts v  *)
(* after the values already held and raises size() by one; and at every     *)
(* moment size() is the number of values held and the walk from begin()     *)
(* meets them in order, one increment apart, reaching end() after exactly   *)
(* size() increments.                                                       *)
C14_PushBackTraversal ==
    [][/\ \A l \in Lists : TraversalOK(Cur, l)
       /\ res'.op = "push_back" =>
            LET l == res'.list
            IN  /\ res'.exc = None
                /\ ValuesOf(Cur', ChainNext(l))
                      = Append(ValuesOf(Cur, ChainNow(l)), res'.arg)
                /\ lists'[l].sz = lists[l].sz + 1
                /\ TraversalOK(Cur', l)]_vars

C14_Witness ==
    /\ res.op = "push_back" /\ res.exc = None /\ ~broken
    /\ lists["B"].sz = 0 /\ lists["A"].sz = 3
    /\ ValuesOf(Cur, ChainNow("A")) = <<2, 1, 2>>
    /\ ChainNow("A") = <<5, 6, 7>>
    /\ it = NoIt

(* the operations that change the list they are called on and take no      *)
(* other list to change                                                     *)
Mutators ==
    {"insert", "erase", "erase(insert)", "push_back", "push_front", "pop_back",
     "pop_front", "clear", "sort", "reverse", "unique", "operator=", "list(copy)"}

(* list l holds the values of list o, in order, in nodes of its own *)
DeepCopyOf(st, l, o) ==
    /\ ValuesOf(st, Chain(st, l)) = ValuesOf(st, Chain(st, o))
    /\ st.lists[l].sz = st.lists[o].sz
    /\ Range(Chain(st, l)) \cap Range(Chain(st, o)) = {}

(* nothing of list o differs between the two states *)
SameList(o) ==
    /\ ChainNext(o) = ChainNow(o)
    /\ ValuesOf(Cur', ChainNext(o)) = ValuesOf(Cur, ChainNow(o))
    /\ lists'[o] = lists[o]
    /\ Range(ChainNow(o)) \subseteq alive'

(* what copy construction and assignment do themselves *)
CopyStep ==
    /\ res'.op \in {"operator=", "list(copy)"} =>
          /\ res'.exc = None
          /\ DeepCopyOf(Cur', res'.list, Other(res'.list))
          /\ SameList(Other(res'.list))
    /\ res'.op = "operator=(self)" =>
          /\ res'.exc = None
          /\ SameList(res'.list)
          /\ alive' = alive /\ heap' = heap

(* C15 as claimed: copy construction and assignment leave the destination  *)
(* with the values of the source, in order, in nodes of its own and the     *)
(* source as it was; self-assignment changes nothing; and a mutation of a   *)
(* non-empty list that is such a copy of the other, whatever live node the  *)
(* iterator passed references, changes neither the sequence nor the count   *)
(* of the other.                                                            *)
C15_DeepCopyIndependent ==
    [][/\ CopyStep
       /\ res'.op \in Mutators /\ it.cur \in alive \cup {Null}
            /\ lists[res'.list].sz > 0
            /\ DeepCopyOf(Cur, res'.list, Other(res'.list))
            => SameList(Other(res'.list))]_vars

(* the nodes of q that start a run of equal values *)
RunHeads(st, q) ==
    LET keep == {i \in 1..Len(q) : i = 1 \/ st.heap[q[i]].val # st.heap[q[i - 1]].val}
        F[k \in 0..Len(q)] ==
            IF k = 0 THEN <<>>
            ELSE IF k \in keep THEN Append(F[k - 1], q[k]) ELSE F[k - 1]
    IN  F[Len(q)]

(* C16: unique() keeps exactly the first node of every run of consecutive  *)
(* equal values, in order, destroys the others and lowers the count by     *)
(* their number; afterwards no two neighbours are equal, nodes with equal   *)
(* values that were not neighbours are all kept, and a second unique()      *)
(* changes nothing.                                                         *)
C16_UniqueRuns ==
    [][res'.op = "unique" =>
         LET l == res'.list
             q == ChainNow(l)
             kept == RunHeads(Cur, q)
         IN  /\ res'.exc = None
             /\ ChainNext(l) = kept
             /\ alive' = alive \ (Range(q) \ Range(kept))
             /\ lists'[l].sz = lists[l].sz - (Len(q) - Len(kept))
             /\ \A n \in alive' : heap'[n].val = heap[n].val
             /\ \A i \in 1..(Len(kept) - 1) :
                   heap'[kept[i]].val # heap'[kept[i + 1]].val
             /\ unique(Cur', l) = Out(Cur', None, NoRet, FALSE)
             /\ SameList(Other(l))]_vars

C16_Witness ==
    /\ res.op = "unique" /\ res.exc = None /\ ~broken
    /\ lists[res.list].sz = 1 /\ lists[Other(res.list)].sz = 0
    /\ it.owner = res.list /\ it.cur \notin alive \cup {Null}
    /\ erased = {}
    /\ Cardinality({n \in Nodes : heap[n] = DeadCell}) = 2

(* the sequence q back to front *)
Rev(q) == [i \in 1..Len(q) |-> q[Len(q) + 1 - i]]

(* C17: reverse() makes position i hold the value position n-1-i held,     *)
(* keeps every node, every link and the count (so the middle node of an    *)
(* odd-sized list keeps its value), and a second reverse() restores the    *)
(* original values.                                                        *)
C17_ReverseValues ==
    [][res'.op = "reverse" =>
         LET l == res'.list
             q == ChainNow(l)
         IN  /\ res'.exc = None
             /\ ChainNext(l) = q
             /\ ValuesOf(Cur', q) = Rev(ValuesOf(Cur, q))
             /\ alive' = alive /\ lists' = lists
             /\ \A n \in Nodes : /\ heap'[n].prev = heap[n].prev
                                 /\ heap'[n].next = heap[n].next
             /\ \A n \in Nodes \ Range(q) : heap'[n] = heap[n]
             /\ (Len(q) % 2 = 1 =>
                     heap'[q[(Len(q) + 1) \div 2]] = heap[q[(Len(q) + 1) \div 2]])
             /\ reverse(Cur', l) = Out(Cur, None, NoRet, FALSE)]_vars

C17_Witness ==
    /\ res.op = "reverse" /\ res.exc = None /\ ~broken
    /\ lists[res.list].sz = 3
    /\ ValuesOf(Cur, ChainNow(res.list)) = <<2, 1, 1>>

(* C18: with a sort utility that returns the node array ordered by the     *)
(* comparator, sort() keeps exactly the nodes of the list, each with its   *)
(* value, and the count, links them both ways between the two sentinels    *)
(* with ascending values, and leaves the order of values of a list that    *)
(* was already ascending (so of any list of 0 or 1 elements) unchanged.    *)
C18_SortAscending ==
    [][res'.op = "sort" =>
         LET l == res'.list
             q == ChainNow(l)
             p == ChainNext(l)
             all == <<lists[l].head>> \o p \o <<lists[l].tail>>
         IN  /\ res'.exc = None
             /\ Len(p) = Len(q) /\ Range(p) = Range(q)
             /\ alive' = alive /\ lists' = lists
             /\ \A n \in Nodes : heap'[n].val = heap[n].val
             /\ \A n \in Nodes \ (Range(q) \cup {lists[l].head, lists[l].tail}) :
                   heap'[n] = heap[n]
             /\ \A i \in 1..(Len(all) - 1) :
                   heap'[all[i]].next = all[i + 1] /\ heap'[all[i + 1]].prev = all[i]
             /\ heap'[lists[l].head].prev = Null /\ heap'[lists[l].tail].next = Null
             /\ Sorted(Cur', p)
             /\ (Len(q) <= 1 => p = q)
             /\ (Sorted(Cur, q) => ValuesOf(Cur', p) = ValuesOf(Cur, q))]_vars

C18_Witness ==
    /\ res.op = "sort" /\ res.exc = None /\ res.arg = 1 /\ ~broken
    /\ lists[res.list].sz = 3
    /\ ValuesOf(Cur, ChainNow(res.list)) = <<1, 2, 2>>

IncOps == {"it++", "++it", "cit++", "++cit"}

(* C19 as claimed: an increment moves an iterator at a value node to the   *)
(* next node and fails with InvalidIterator when the iterator is           *)
(* unattached, references no node or references a tail sentinel; a         *)
(* successful increment never ends at no node, and post-increment returns  *)
(* the position held before.                                               *)
C19_Increment ==
    [][res'.op \in IncOps /\ it.cur \in alive \cup {Null} =>
         LET c == it.cur
             heads == {lists[l].head : l \in Lists}
             tails == {lists[l].tail : l \in Lists}
         IN  /\ (it.owner = NoList \/ c = Null \/ c \in tails)
                   => res'.exc = InvalidIterator
             /\ it.owner # NoList /\ c \notin heads \cup tails \cup {Null}
                   => res'.exc = None /\ After = Iter(it.owner, heap[c].next)
             /\ res'.exc = None => After.cur # Null
             /\ res'.exc = None /\ res'.op \in {"it++", "cit++"}
                   => res'.ret = RetIt(it)]_vars

EndOps == {"front", "back", "pop_front", "pop_back"}

(* C20: front(), back(), pop_front() and pop_back() fail with              *)
(* EmptyContainer exactly when the count is zero; otherwise front() and    *)
(* back() return the first and the last value and change nothing, and      *)
(* pop_front() and pop_back() destroy exactly the first and the last node, *)
(* lower the count by one and keep the others in order.                    *)
C20_FrontBackPop ==
    [][res'.op \in EndOps =>
         LET l == res'.list
             q == ChainNow(l)
             n == Len(q)
             gone == IF res'.op = "pop_front" THEN q[1] ELSE q[n]
         IN  /\ (res'.exc = EmptyContainer) <=> (lists[l].sz = 0)
             /\ lists[l].sz = 0 => Cur' = Cur
             /\ lists[l].sz # 0 =>
                   /\ res'.exc = None
                   /\ res'.op = "front" => res'.ret = RetVal(heap[q[1]].val) /\ Cur' = Cur
                   /\ res'.op = "back" => res'.ret = RetVal(heap[q[n]].val) /\ Cur' = Cur
                   /\ res'.op \in {"pop_front", "pop_back"} =>
                         /\ ChainNext(l) = IF res'.op = "pop_front" THEN Tail(q)
                                           ELSE SubSeq(q, 1, n - 1)
                         /\ lists'[l].sz = lists[l].sz - 1
                         /\ alive' = alive \ {gone}
                         /\ ValuesOf(Cur', ChainNext(l)) = ValuesOf(Cur, ChainNext(l))
                         /\ SameList(Other(l))]_vars

C20_Witness ==
    /\ res.op = "pop_back" /\ res.exc = None /\ ~broken
    /\ lists[res.list].sz = 2
    /\ it.owner = res.list /\ it.cur \in erased
    /\ ValuesOf(Cur, ChainNow(res.list)) = <<1, 2>>
====
